---- MODULE Spec2Model ----
(***************************************************************************)
(* Page-object / element-resolution layer of the BDD browser harness:      *)
(* ElementSelector.find and the element / section descriptors              *)
(* (features/lib/element.py, features/lib/section.py), the form inputs     *)
(* (features/lib/form.py) and BasePage (features/pages/base_page.py).      *)
(*                                                                         *)
(* The browser driver is the environment.  A document is a fixed tree of   *)
(* nodes of which a changing subset is attached; an element handle is a    *)
(* node; a handle whose node is detached is stale.                         *)
(***************************************************************************)
EXTENDS Integers, Sequences, FiniteSets, TLC

VARIABLES
    present,    \* nodes attached to the current document
    decl,       \* the strategy/multiple the page class declares its descriptors with
    pc,         \* position of the attribute access in flight
    target,     \* the attribute chain being accessed, e.g. <<"section", "child">>
    idx,        \* the hop of the chain whose find() is running
    scope,      \* scope of the running find(): 0 is the driver, else a node
    polls,      \* polls the running WebDriverWait has done without success
    result,     \* what the last finished access returned or raised
    prev,       \* result of the access before, when it read the same attribute chain
    fdecl,      \* how the page's Form declares its inputs (TextInput clear flag)
    selected,   \* the checkable controls that are selected
    value,      \* each control's value: typed text, or the visible text of the chosen option
    calls,      \* the last form calls, oldest first, each with the driver actions it issued
    dateIn,     \* the value a step passes to DateInput.complete
    dateDoc,    \* the parts of the date whose select the document holds
    dateOut,    \* what DateInput.complete did with dateIn
    ctor,       \* the arguments of the BasePage constructor
    page,       \* the page object constructed
    location,   \* driver.current_url
    apc,        \* position of assert_on_page
    apolls,     \* polls its wait has done without a match
    seen,       \* the locations its polls have read
    aresult,    \* how the last assert_on_page ended
    labels,     \* the text each label of the checkable group shows
    formDriver, \* the driver attribute of the Form descriptor, 0 before its first access
    held,       \* the steps that hold the form they read off their page
    parked      \* the controls in the browser of the driver the form does not hold

resolveVars == <<present, decl, pc, target, idx, scope, polls, result, prev>>

formVars == <<fdecl, selected, value, calls>>

dateVars == <<dateIn, dateDoc, dateOut>>

pageVars == <<ctor, page>>

navVars == <<location, apc, apolls, seen, aresult>>

groupVars == <<labels>>

bindVars == <<formDriver, held, parked>>

vars == <<present, decl, pc, target, idx, scope, polls, result, prev,
          fdecl, selected, value, calls, dateIn, dateDoc, dateOut,
          ctor, page, location, apc, apolls, seen, aresult,
          labels, formDriver, held, parked>>

----------------------------------------------------------------------------
(* Bounds *)

\* polls that fit in ElementSelector.TIMEOUT
MaxPolls == 3

----------------------------------------------------------------------------
(* The document *)

\* 1: leaf outside the section    2: root of section S    3: leaf in S
\* 4: root of sub-section T in S  5: leaf in T            6: a T-like node outside S
DocNodes == 1..6

\* the form's controls
\* 7: text input "email"  8: button "submit"  9: checkbox "agree"
\* 10: radio button "opt"  11: select "country"
ControlNodes == 7..11

\* the inputs of the checkable group "grp", in document order
GroupNodes == 12..14

\* the label of each input of the group: 15 for 12, 16 for 13, 17 for 14
LabelNodes == 15..17

Nodes == DocNodes \cup ControlNodes \cup GroupNodes \cup LabelNodes

\* parent of each node, 0 is the document
Parent == [n \in Nodes |->
             CASE n = 3 -> 2
               [] n = 4 -> 2
               [] n = 5 -> 4
               [] OTHER -> 0]

\* the one value under which a node is found (its id, name, class and text)
Tag == [n \in Nodes |->
          CASE n = 2 -> "s"
            [] n = 4 -> "t"
            [] n = 6 -> "t"
            [] n = 7 -> "email"
            [] n = 8 -> "submit"
            [] n = 9 -> "agree"
            [] n = 10 -> "opt"
            [] n = 11 -> "country"
            [] n \in GroupNodes -> "grp"
            [] n \in LabelNodes -> "label"
            [] OTHER -> "x"]

RECURSIVE IsUnder(_, _)
\* n lies in the subtree strictly below r; everything is below the document 0
IsUnder(n, r) ==
    IF r = 0 THEN TRUE
    ELSE IF Parent[n] = 0 THEN FALSE
    ELSE Parent[n] = r \/ IsUnder(Parent[n], r)

Subtree(r) == {n \in Nodes : n = r \/ IsUnder(n, r)}

\* a set of attached nodes is a document when every attached node's parent is attached
WellFormed(att) == \A n \in att : Parent[n] = 0 \/ Parent[n] \in att

RECURSIVE SortedSeq(_)
\* the nodes of a set in document order (node numbers are in pre-order)
SortedSeq(S) ==
    IF S = {} THEN <<>>
    ELSE LET m == CHOOSE x \in S : \A y \in S : x <= y
         IN  <<m>> \o SortedSeq(S \ {m})

----------------------------------------------------------------------------
(* Locators *)

ById      == "id"
ByName    == "name"
ByCss     == "css selector"
ByXpath   == "xpath"
ByContent == "content"

Strategies == {ById, ByName, ByCss, ByXpath, ByContent}

\* A locator string: the value it selects, whether it is the text XPath that
\* find() builds for By.CONTENT, and (XPath only) whether it starts with "."
\* and so is relative to the context node.
Locator(val, rel) == [val |-> val, rel |-> rel, text |-> FALSE]

\* '//*[normalize-space() = "{}"]/text()/..'.format(locator)
TextXpath(loc) == [val |-> loc.val, rel |-> FALSE, text |-> TRUE]

----------------------------------------------------------------------------
(* The driver's lookups *)

\* The nodes a lookup from context sc searches: an XPath that starts with "//"
\* selects from the document root whatever the context node is; every other
\* lookup searches below the context node.
SearchBase(sc, by, loc, att) ==
    IF by = ByXpath /\ ~loc.rel THEN att
    ELSE {n \in att : IsUnder(n, sc)}

\* scope.find_elements(by, locator): the matches in document order
FindElements(sc, by, loc, att) ==
    SortedSeq({n \in SearchBase(sc, by, loc, att) : Tag[n] = loc.val})

\* a lookup from an element handle whose node is detached raises
\* StaleElementReferenceException
IsStale(sc, att) == sc # 0 /\ sc \notin att

----------------------------------------------------------------------------
(* Descriptors declared on the page class *)

\* page.elem, page.section (children child, sub), page.section.sub (child leaf)
Targets == { <<"elem">>, <<"section">>, <<"section", "child">>,
             <<"section", "sub">>, <<"section", "sub", "leaf">> }

\* ElementSelector.__init__ / SectionSelector.__init__: by, locator, multiple
Descriptor(name) ==
    CASE name = "section" ->
           [type |-> "section", by |-> decl.by,
            locator |-> Locator("s", decl.rel), multiple |-> FALSE]
      [] name = "sub" ->
           [type |-> "section", by |-> decl.by,
            locator |-> Locator("t", decl.rel), multiple |-> FALSE]
      [] OTHER ->
           [type |-> "element", by |-> decl.by,
            locator |-> Locator("x", decl.rel), multiple |-> decl.multiple]

\* the declarations a page class can carry: one strategy, XPath locators
\* written either from the root ("//x") or relative (".//x")
Declarations ==
    { [by |-> b, rel |-> r, multiple |-> m] :
        b \in Strategies, r \in BOOLEAN, m \in BOOLEAN }
    \ { d \in [by : Strategies, rel : BOOLEAN, multiple : BOOLEAN] :
          d.by # ByXpath /\ d.rel }

----------------------------------------------------------------------------
(* ElementSelector.find *)

\* by after the By.CONTENT rewrite
EffBy(d) == IF d.by = ByContent THEN ByXpath ELSE d.by

\* locator after the By.CONTENT rewrite
EffLocator(d) == IF d.by = ByContent THEN TextXpath(d.locator) ELSE d.locator

\* a finder that hands back the handles the access before returned
Finder_Cached(sc, d) ==
    IF prev.status = "ok" /\ prev.value # <<>> THEN prev.value
    ELSE FindElements(sc, EffBy(d), EffLocator(d), present)

\* the lookup the wait and the return both run: what it finds in the
\* document as it is now
Finder(sc, d) == FindElements(sc, EffBy(d), EffLocator(d), present)

\* a wait that never looks at the clock
TimedOut_Never(n) == FALSE

\* WebDriverWait.until gives up once the timeout has passed
TimedOut(n) == n >= MaxPolls

NoResult ==
    [status |-> "none", value |-> <<>>, many |-> FALSE, root |-> 0,
     by |-> "", locator |-> Locator("", FALSE)]

\* a raise out of find(): TimeoutException carries the locator and by it polled with
Raised(st, sc, d) ==
    [status |-> st, value |-> <<>>, many |-> FALSE, root |-> sc,
     by |-> IF st = "ElementNotFound" THEN EffBy(d) ELSE "",
     locator |-> IF st = "ElementNotFound" THEN EffLocator(d) ELSE Locator("", FALSE)]

Returned(v, sc, d) ==
    [status |-> "ok", value |-> v, many |-> d.multiple, root |-> sc,
     by |-> "", locator |-> Locator("", FALSE)]

CurDesc == Descriptor(target[idx])

\* parent.<name> is read: __get__ of the first descriptor of the chain starts
\* find() with scope None, i.e. the driver
StartAccess(t) ==
    /\ pc \in {"idle", "done"}
    /\ target' = t
    /\ idx' = 1
    /\ scope' = 0
    /\ polls' = 0
    /\ pc' = "poll"
    /\ result' = NoResult
    /\ UNCHANGED <<present, decl>>

Access(t) == StartAccess(t) /\ UNCHANGED prev

\* the same, with the value of the access before kept aside for comparison
\* when it read the same attribute chain
AccessAgain(t) ==
    /\ StartAccess(t)
    /\ prev' = IF pc = "done" /\ target = t THEN result ELSE NoResult

\* the access ends: the value or the exception reaches the caller, and the
\* frames of find() are gone
Finish(out) ==
    /\ pc' = "done"
    /\ result' = out
    /\ idx' = 1
    /\ scope' = 0
    /\ polls' = 0

\* one evaluation of the wait's lambda, then the sleep and the clock test
Poll ==
    /\ pc = "poll"
    /\ IF IsStale(scope, present)
       THEN Finish(Raised("StaleElement", scope, CurDesc))
       ELSE IF Finder(scope, CurDesc) # <<>>
       THEN /\ pc' = "lookup"
            /\ UNCHANGED <<result, polls, idx, scope>>
       ELSE IF TimedOut(polls + 1)
       THEN Finish(Raised("ElementNotFound", scope, CurDesc))
       ELSE /\ polls' = IF polls < MaxPolls THEN polls + 1 ELSE polls
            /\ UNCHANGED <<pc, result, idx, scope>>
    /\ UNCHANGED <<present, decl, target, prev>>

\* what the second lookup, the one whose value find() returns, ends in
LookupOutcome(sc, d) ==
    LET found == Finder(sc, d)
    IN  IF IsStale(sc, present) THEN Raised("StaleElement", sc, d)
        ELSE IF d.multiple THEN Returned(found, sc, d)
        ELSE IF found # <<>> THEN Returned(<<found[1]>>, sc, d)
        ELSE IF d.by = ByContent THEN Raised("IndexError", sc, d)
        ELSE Raised("NoSuchElement", sc, d)

\* the lookup after the wait; a section that is not the last hop becomes the
\* scope of the next descriptor's find()
Lookup ==
    /\ pc = "lookup"
    /\ LET out == LookupOutcome(scope, CurDesc)
       IN  IF out.status = "ok" /\ idx < Len(target)
           THEN /\ scope' = out.value[1]
                /\ idx' = idx + 1
                /\ polls' = 0
                /\ pc' = "poll"
                /\ UNCHANGED result
           ELSE Finish(out)
    /\ UNCHANGED <<present, decl, target, prev>>

\* the page re-renders: a node is attached, or detached with its subtree
Mutate(n) ==
    /\ present' = IF n \in present THEN present \ Subtree(n)
                  ELSE present \cup {n}
    /\ WellFormed(present')
    /\ UNCHANGED <<decl, pc, target, idx, scope, polls, result, prev>>

\* no form call has been made
FormIdle ==
    /\ fdecl = [clear |-> TRUE]
    /\ selected = {}
    /\ value = [n \in ControlNodes |-> <<>>]
    /\ calls = <<>>

\* no date has been filled
DateIdle ==
    /\ dateIn = [info |-> <<>>, name |-> <<>>, day |-> 0, month |-> 0, year |-> <<>>]
    /\ dateDoc = {}
    /\ dateOut = [outcome |-> "none", fills |-> <<>>]

\* no page object has been made
PageIdle ==
    /\ ctor = [base |-> <<>>, path |-> <<>>]
    /\ page = [base |-> <<>>, path |-> <<>>, url |-> <<>>]

\* no assert_on_page has been called
NavIdle ==
    /\ location = <<>>
    /\ apc = "idle"
    /\ apolls = 0
    /\ seen = {}
    /\ aresult = "none"

\* no checkable group is on the page
GroupIdle == labels = [n \in LabelNodes |-> <<>>]

\* the page's Form has not been read off any page object
BindIdle ==
    /\ formDriver = 0
    /\ held = {}
    /\ parked = [selected |-> {}, value |-> <<>>]

\* no attribute of the page is being read
ResolveIdle ==
    /\ decl = [by |-> ByName, rel |-> FALSE, multiple |-> FALSE]
    /\ pc = "idle"
    /\ target = <<"elem">>
    /\ idx = 1
    /\ scope = 0
    /\ polls = 0
    /\ result = NoResult
    /\ prev = NoResult

InitResolve ==
    /\ present \in {att \in SUBSET DocNodes : WellFormed(att)}
    /\ decl \in Declarations
    /\ pc = "idle"
    /\ target = <<"elem">>
    /\ idx = 1
    /\ scope = 0
    /\ polls = 0
    /\ result = NoResult
    /\ prev = NoResult
    /\ FormIdle
    /\ DateIdle
    /\ PageIdle
    /\ NavIdle
    /\ GroupIdle
    /\ BindIdle

NextResolve ==
    /\ \/ \E t \in Targets : Access(t)
       \/ Poll
       \/ Lookup
       \/ \E n \in DocNodes : Mutate(n)
    /\ UNCHANGED <<formVars, dateVars, pageVars, navVars, groupVars, bindVars>>

SpecResolve == InitResolve /\ [][NextResolve]_vars

NextRepeat ==
    /\ \/ \E t \in Targets : AccessAgain(t)
       \/ Poll
       \/ Lookup
       \/ \E n \in DocNodes : Mutate(n)
    /\ UNCHANGED <<formVars, dateVars, pageVars, navVars, groupVars, bindVars>>

SpecRepeat == InitResolve /\ [][NextRepeat]_vars

\* the test's thread keeps running: a started find() takes its next step
FairSpecResolve ==
    /\ SpecResolve
    /\ WF_vars(Poll /\ UNCHANGED <<formVars, dateVars, pageVars, navVars, groupVars, bindVars>>)
    /\ WF_vars(Lookup /\ UNCHANGED <<formVars, dateVars, pageVars, navVars, groupVars, bindVars>>)

----------------------------------------------------------------------------
(* Form inputs *)

\* find() on a document that stays as it is during the call: the first poll
\* finds the match, or every poll finds nothing and the wait times out
FindStatic(sc, d) ==
    IF ~IsStale(sc, present) /\ Finder(sc, d) = <<>>
    THEN Raised("ElementNotFound", sc, d)
    ELSE LookupOutcome(sc, d)

\* the aliases of the inputs the page's Form is built from
Fields == {"email", "submit", "agree", "opt", "country"}

\* FormInput.__init__: by defaults to By.NAME, the alias to the locator
Field(alias) ==
    [alias   |-> alias,
     by      |-> ByName,
     locator |-> Locator(alias, FALSE),
     variant |-> CASE alias = "email"   -> "Text"
                   [] alias = "submit"  -> "Button"
                   [] alias = "agree"   -> "Checkbox"
                   [] alias = "opt"     -> "Radio"
                   [] alias = "country" -> "Select"]

\* the inputs the page's Form is declared with, in the order written
DeclaredInputs ==
    <<Field("email"), Field("submit"), Field("agree"), Field("opt"),
      Field("country")>>

\* Form.__init__: {input.alias: input for input in inputs}; of two inputs
\* with one alias the dict keeps the later
FormInputs ==
    [a \in {DeclaredInputs[i].alias : i \in DOMAIN DeclaredInputs} |->
        LET is == {i \in DOMAIN DeclaredInputs : DeclaredInputs[i].alias = a}
        IN  DeclaredInputs[CHOOSE i \in is : \A j \in is : j <= i]]

\* a lookup that hands out the form's first input for an alias it does not know
InputOf_Default(alias) ==
    IF alias \in DOMAIN FormInputs
    THEN [found |-> TRUE, input |-> FormInputs[alias]]
    ELSE [found |-> TRUE, input |-> DeclaredInputs[1]]

\* self.inputs[alias]: the input, or KeyError
InputOf(alias) ==
    IF alias \in DOMAIN FormInputs
    THEN [found |-> TRUE, input |-> FormInputs[alias]]
    ELSE [found |-> FALSE, input |-> DeclaredInputs[1]]

\* FormInput._find_element: find() with the driver as scope
FindElement(f, multiple) ==
    FindStatic(0, [type |-> "element", by |-> f.by, locator |-> f.locator,
                   multiple |-> multiple])

\* the options of the select, by visible text
Options == { <<"UK">>, <<"FR">> }

\* the argument None
NoneArg == <<"None">>

\* one call on the driver or on an element handle (node 0 is the driver)
Act(a, n, x) == [act |-> a, node |-> n, arg |-> x]

ActFind(f) == Act("find", 0, <<f.locator.val>>)

\* ElementSelector.scroll_into_view
ActScroll(e) == Act("execute_script", e, <<>>)

\* what a call on an input did: how it ended, the driver actions in the
\* order issued, and the controls' state after them
Effect(out, acts, sel, val) ==
    [outcome |-> out, actions |-> acts, selected |-> sel, value |-> val]

\* the lookup failed: the exception leaves the call after the lookup alone
NotFound(f, r) == Effect(r.status, <<ActFind(f)>>, selected, value)

\* the element actions of TextInput.complete, clear typed after the keys
TextActions_ClearLast(e, text) ==
    <<ActScroll(e), Act("send_keys", e, text)>>
        \o (IF fdecl.clear THEN <<Act("clear", e, <<>>)>> ELSE <<>>)

\* the element actions of TextInput.complete
TextActions(e, text) ==
    <<ActScroll(e)>>
        \o (IF fdecl.clear THEN <<Act("clear", e, <<>>)>> ELSE <<>>)
        \o <<Act("send_keys", e, text)>>

\* the id attribute of each input of the group
IdOf == [n \in GroupNodes |->
           CASE n = 12 -> <<"g", "1">>
             [] n = 13 -> <<"g", ".", "2">>
             [] n = 14 -> <<"g", "3">>]

\* the for attribute of each label: the id of its input
ForOf == [n \in LabelNodes |-> IdOf[n - 3]]

\* the input a click on a label lands on (a checkbox: the click toggles it)
LabelledInput(l) == CHOOSE n \in GroupNodes : IdOf[n] = ForOf[l]

RECURSIVE Apply(_, _, _)
\* the controls' state after a sequence of element actions on state [sel, val]
Apply(acts, sel, val) ==
    IF acts = <<>> THEN [sel |-> sel, val |-> val]
    ELSE LET a == Head(acts)
             e == a.node
         IN  CASE a.act = "clear" ->
                    Apply(Tail(acts), sel, [val EXCEPT ![e] = <<>>])
               [] a.act = "send_keys" ->
                    Apply(Tail(acts), sel, [val EXCEPT ![e] = @ \o a.arg])
               [] a.act = "click" /\ Tag[e] = "agree" ->
                    Apply(Tail(acts),
                          IF e \in sel THEN sel \ {e} ELSE sel \cup {e}, val)
               [] a.act = "click" /\ Tag[e] = "opt" ->
                    Apply(Tail(acts), sel \cup {e}, val)
               [] a.act = "click" /\ e \in LabelNodes ->
                    Apply(Tail(acts),
                          IF LabelledInput(e) \in sel
                          THEN sel \ {LabelledInput(e)}
                          ELSE sel \cup {LabelledInput(e)}, val)
               [] a.act = "select_by_visible_text" ->
                    Apply(Tail(acts), sel, [val EXCEPT ![e] = a.arg])
               [] OTHER -> Apply(Tail(acts), sel, val)

\* the call ran its actions to the end
Done(acts) ==
    LET st == Apply(acts, selected, value)
    IN  Effect("ok", acts, st.sel, st.val)

\* TextInput.complete
TextComplete(f, text) ==
    LET r == FindElement(f, FALSE)
    IN  IF r.status # "ok" THEN NotFound(f, r)
        ELSE Done(<<ActFind(f)>> \o TextActions(r.value[1], text))

\* a radio button that is clicked whatever its state
RadioClicks_Always(sel) == TRUE

\* RadioInput.complete: if not element.is_selected()
RadioClicks(sel) == ~sel

\* RadioInput.complete
RadioComplete(f) ==
    LET r == FindElement(f, FALSE)
        e == r.value[1]
    IN  IF r.status # "ok" THEN NotFound(f, r)
        ELSE Done(<<ActFind(f), ActScroll(e), Act("is_selected", e, <<>>)>>
                  \o (IF RadioClicks(e \in selected)
                      THEN <<Act("click", e, <<>>)>> ELSE <<>>))

\* a checkbox that is clicked whenever "checked" is asked for
CheckboxClicks_WhenAsked(sel, checked) == checked = <<"checked">>

\* CheckboxInput.complete: element.is_selected() ^ (checked == 'checked')
CheckboxClicks(sel, checked) == sel # (checked = <<"checked">>)

\* CheckboxInput.complete
CheckboxComplete(f, checked) ==
    LET r == FindElement(f, FALSE)
        e == r.value[1]
    IN  IF r.status # "ok" THEN NotFound(f, r)
        ELSE Done(<<ActFind(f), ActScroll(e), Act("is_selected", e, <<>>)>>
                  \o (IF CheckboxClicks(e \in selected, checked)
                      THEN <<ActScroll(e), Act("click", e, <<>>)>> ELSE <<>>))

\* SelectInput.complete: select_by_visible_text raises NoSuchElementException
\* when no option shows the text
SelectComplete(f, text) ==
    LET r == FindElement(f, FALSE)
        e == r.value[1]
    IN  IF r.status # "ok" THEN NotFound(f, r)
        ELSE IF text \notin Options
        THEN Effect("NoSuchElement",
                    <<ActFind(f), ActScroll(e), Act("options", e, text)>>,
                    selected, value)
        ELSE Done(<<ActFind(f), ActScroll(e),
                    Act("select_by_visible_text", e, text)>>)

\* Button.complete
ButtonComplete(f) ==
    LET r == FindElement(f, FALSE)
    IN  IF r.status # "ok" THEN NotFound(f, r)
        ELSE Done(<<ActFind(f), Act("click", r.value[1], <<>>)>>)

RECURSIVE EscapeDots(_)
\* id.replace('.', '\.')
EscapeDots(id) ==
    IF id = <<>> THEN <<>>
    ELSE (IF Head(id) = "." THEN <<"\\", ".">> ELSE <<Head(id)>>)
         \o EscapeDots(Tail(id))

\* "label[for={}]".format(id)
LabelSelector(id) ==
    <<"l", "a", "b", "e", "l", "[", "f", "o", "r", "=">> \o id \o <<"]">>

RECURSIVE CssIdent(_)
\* the identifier a CSS parser reads: a backslash stands for the character after it
CssIdent(s) ==
    IF s = <<>> THEN <<>>
    ELSE IF Head(s) = "\\" /\ Len(s) > 1
    THEN <<s[2]>> \o CssIdent(Tail(Tail(s)))
    ELSE <<Head(s)>> \o CssIdent(Tail(s))

\* ElementSelector.find(driver, By.CSS_SELECTOR, "label[for=...]") on a
\* document that stays as it is: the labels whose for attribute is the
\* selector's identifier, in document order
FindLabel(css) ==
    LET ident == CssIdent(SubSeq(css, 11, Len(css) - 1))
    IN  SortedSeq({l \in LabelNodes \cap present : ForOf[l] = ident})

\* a group whose matching label is clicked whatever the state of its input
GroupClicks_AnyState(text, label_content, sel) == text = label_content

\* CheckableGroupInput.complete:
\* label.text == label_content and not input.is_selected()
GroupClicks(text, label_content, sel) == text = label_content /\ ~sel

RECURSIVE GroupWalk(_, _, _)
\* the loop of CheckableGroupInput.complete over the inputs still to visit,
\* after the driver actions acts
GroupWalk(inputs, label_content, acts) ==
    IF inputs = <<>> THEN Done(acts)
    ELSE LET input == Head(inputs)
             css   == LabelSelector(EscapeDots(IdOf[input]))
             found == FindLabel(css)
             a1    == acts \o <<Act("get_attribute", input, <<"id">>),
                                 Act("find", 0, css)>>
         IN  IF found = <<>>
             THEN Effect("ElementNotFound", a1, selected, value)
             ELSE LET label == found[1]
                      a2 == a1 \o <<Act("text", label, <<>>)>>
                              \o (IF labels[label] = label_content
                                  THEN <<Act("is_selected", input, <<>>)>>
                                  ELSE <<>>)
                  IN  IF GroupClicks(labels[label], label_content,
                                     input \in selected)
                      THEN Done(a2 \o <<ActScroll(input),
                                        Act("click", label, <<>>)>>)
                      ELSE GroupWalk(Tail(inputs), label_content, a2)

\* CheckboxGroupInput('grp')
GroupField ==
    [alias |-> "grp", by |-> ByName, locator |-> Locator("grp", FALSE),
     variant |-> "Group"]

\* CheckableGroupInput.complete
GroupComplete(f, label_content) ==
    LET r == FindElement(f, TRUE)
    IN  IF r.status # "ok" THEN NotFound(f, r)
        ELSE GroupWalk(r.value, label_content, <<ActFind(f)>>)

\* input.complete(driver, value), by the class of the input
Complete(f, arg) ==
    CASE f.variant = "Text"     -> TextComplete(f, arg)
      [] f.variant = "Button"   -> ButtonComplete(f)
      [] f.variant = "Checkbox" -> CheckboxComplete(f, arg)
      [] f.variant = "Radio"    -> RadioComplete(f)
      [] f.variant = "Select"   -> SelectComplete(f, arg)
      [] f.variant = "Group"    -> GroupComplete(f, arg)

\* FormInput.verify: the value attribute against the expected string
BaseVerify(f, expected) ==
    LET r == FindElement(f, FALSE)
        e == r.value[1]
        acts == <<ActFind(f), Act("get_attribute", e, <<"value">>)>>
    IN  IF r.status # "ok" THEN NotFound(f, r)
        ELSE IF ~(value[e] = expected)
        THEN Effect("Exception", acts, selected, value)
        ELSE Effect("ok", acts, selected, value)

\* CheckboxInput.verify: is_selected is asked only for the two tokens
CheckboxVerify(f, expected) ==
    LET r == FindElement(f, FALSE)
        e == r.value[1]
        acts == <<ActFind(f)>>
                  \o (IF expected \in { <<"checked">>, <<"unchecked">> }
                      THEN <<Act("is_selected", e, <<>>)>> ELSE <<>>)
    IN  IF r.status # "ok" THEN NotFound(f, r)
        ELSE IF expected = <<"checked">> /\ ~(e \in selected)
        THEN Effect("Exception", acts, selected, value)
        ELSE IF expected = <<"unchecked">> /\ e \in selected
        THEN Effect("Exception", acts, selected, value)
        ELSE Effect("ok", acts, selected, value)

\* SelectInput.verify: the text of the first selected option
SelectVerify(f, expected) ==
    LET r == FindElement(f, FALSE)
        e == r.value[1]
        acts == <<ActFind(f), Act("first_selected_option", e, <<>>)>>
    IN  IF r.status # "ok" THEN NotFound(f, r)
        ELSE IF ~(value[e] = expected)
        THEN Effect("Exception", acts, selected, value)
        ELSE Effect("ok", acts, selected, value)

\* input.verify(driver, alias, value), by the class of the input
Verify(f, expected) ==
    CASE f.variant = "Checkbox" -> CheckboxVerify(f, expected)
      [] f.variant = "Select"   -> SelectVerify(f, expected)
      [] OTHER                  -> BaseVerify(f, expected)

\* self.inputs[alias] raised KeyError: the call ends before any driver action
KeyError == Effect("KeyError", <<>>, selected, value)

\* the body of Form.complete
CompleteByAlias(alias, arg) ==
    LET i == InputOf(alias)
    IN  IF ~i.found THEN KeyError ELSE Complete(i.input, arg)

\* the body of Form.verify
VerifyByAlias(alias, arg) ==
    LET i == InputOf(alias)
    IN  IF ~i.found THEN KeyError ELSE Verify(i.input, arg)

----------------------------------------------------------------------------
(* Form *)

\* longest content of the text input
MaxText == 1

\* texts a step types or expects
Texts == { <<"a">>, <<"b">> }

\* the aliases a step names: the declared ones and one no input carries
Aliases == Fields \cup {"phone"}

\* the values a step passes to Form.complete for an input
CompleteArgs(alias) ==
    CASE alias = "email"   -> Texts
      [] alias = "agree"   -> { <<"checked">>, <<"unchecked">>, <<"maybe">> }
      [] alias = "country" -> Options \cup { <<"XX">> }
      [] OTHER             -> { NoneArg }

\* the values a step passes to Form.verify for an input
VerifyArgs(alias) ==
    CASE alias = "email"   -> Texts \cup { <<>> }
      [] alias = "agree"   -> { <<"checked">>, <<"unchecked">>, <<"maybe">> }
      [] alias = "country" -> Options
      [] alias = "phone"   -> { <<"a">> }
      [] OTHER             -> { <<>>, <<"a">> }

\* the control an input's locator finds, 0 when the document has none
ControlOf(alias) ==
    LET ms == {n \in present : Tag[n] = alias}
    IN  IF ms = {} THEN 0 ELSE CHOOSE n \in ms : \A m \in ms : n <= m

\* the record of a finished form call
Call(op, alias, arg, eff) ==
    [op |-> op, alias |-> alias, arg |-> arg,
     outcome |-> eff.outcome, actions |-> eff.actions,
     before |-> ControlOf(alias) \in selected,
     after  |-> ControlOf(alias) \in eff.selected]

\* the last two calls
Recent(cs) == IF Len(cs) > 2 THEN Tail(cs) ELSE cs

\* a form call ends: the controls are as the driver actions left them
Finished(op, alias, arg, eff) ==
    /\ selected' = eff.selected
    /\ value' = eff.value
    /\ calls' = Recent(Append(calls, Call(op, alias, arg, eff)))
    /\ UNCHANGED <<present, fdecl>>

\* Form.complete(alias, value)
FormComplete(alias, arg) ==
    \E eff \in {CompleteByAlias(alias, arg)} :
        /\ \A n \in ControlNodes : Len(eff.value[n]) <= MaxText
        /\ Finished("complete", alias, arg, eff)

\* Form.verify(alias, value)
FormVerify(alias, arg) ==
    \E eff \in {VerifyByAlias(alias, arg)} :
        Finished("verify", alias, arg, eff)

\* the page the form is used on: every control is there, or the text input
\* or the checkbox is missing
InitForm ==
    /\ \E miss \in {{}, {7}, {9}} : present = ControlNodes \ miss
    /\ fdecl \in [clear : BOOLEAN]
    /\ selected \in SUBSET {9, 10}
    /\ value \in {v \in [ControlNodes -> {<<>>, <<"a">>, <<"UK">>}] :
                    /\ v[7] \in {<<>>, <<"a">>}
                    /\ v[11] = <<"UK">>
                    /\ \A n \in {8, 9, 10} : v[n] = <<>>}
    /\ calls = <<>>
    /\ ResolveIdle
    /\ DateIdle
    /\ PageIdle
    /\ NavIdle
    /\ GroupIdle
    /\ BindIdle

NextForm ==
    /\ \/ \E alias \in Aliases : \E arg \in CompleteArgs(alias) :
              FormComplete(alias, arg)
       \/ \E alias \in Aliases : \E arg \in VerifyArgs(alias) :
              FormVerify(alias, arg)
    /\ UNCHANGED <<decl, pc, target, idx, scope, polls, result, prev>>
    /\ UNCHANGED <<dateVars, pageVars, navVars, groupVars, bindVars>>

SpecForm == InitForm /\ [][NextForm]_vars

----------------------------------------------------------------------------
(* A checkable group on the page *)

\* the texts the labels of the group show
LabelTexts == { <<"A">>, <<"B">> }

\* the label texts a step asks the group for
GroupTargets == LabelTexts \cup { <<"C">> }

\* Form.complete('grp', label_content)
GroupFill(label_content) ==
    \E eff \in {Complete(GroupField, label_content)} :
        Finished("complete", "grp", label_content, eff)

\* the page with the group: all of it, or with the second label or the
\* second input and its label missing, or without the group
InitGroup ==
    /\ \E miss \in {{}, {16}, {13, 16}, GroupNodes \cup LabelNodes} :
           present = (GroupNodes \cup LabelNodes) \ miss
    /\ labels \in [LabelNodes -> LabelTexts]
    /\ selected \in SUBSET GroupNodes
    /\ fdecl = [clear |-> TRUE]
    /\ value = [n \in ControlNodes |-> <<>>]
    /\ calls = <<>>
    /\ ResolveIdle
    /\ DateIdle
    /\ PageIdle
    /\ NavIdle
    /\ BindIdle

NextGroup ==
    /\ \E t \in GroupTargets : GroupFill(t)
    /\ UNCHANGED <<decl, pc, target, idx, scope, polls, result, prev>>
    /\ UNCHANGED <<dateVars, pageVars, navVars, groupVars, bindVars>>

SpecGroup == InitGroup /\ [][NextGroup]_vars

----------------------------------------------------------------------------
(* A Form declared as a child of a section *)

\* the driver of page object P
DriverP == 1

\* section = SectionSelector(By.NAME, 's', form=Form(...))
SectionDecl ==
    [type |-> "section", by |-> ByName, locator |-> Locator("s", FALSE),
     multiple |-> FALSE]

\* the inputs of the section's form: TextInput('x'), Button('t')
SectionInputs ==
    [a \in {"x", "t"} |->
        [alias |-> a, by |-> ByName, locator |-> Locator(a, FALSE),
         variant |-> IF a = "x" THEN "Text" ELSE "Button"]]

\* the record of a finished form call made through the section: root is the
\* element the section resolved to, 0 when it did not resolve
ScopedCall(op, alias, arg, eff, root) ==
    [op |-> op, alias |-> alias, arg |-> arg, root |-> root,
     outcome |-> eff.outcome, actions |-> eff.actions]

\* page.section.form.<op>(alias, arg): SectionSelector.__get__ resolves the
\* section, Form.__get__ copies the section's driver, and the input runs
\* with that driver
SectionFormCall(op, alias, arg) ==
    LET sec == FindStatic(0, SectionDecl)
        f   == SectionInputs[alias]
    IN  \E eff \in {IF sec.status # "ok"
                     THEN Effect(sec.status, <<>>, selected, value)
                     ELSE IF op = "complete" THEN Complete(f, arg)
                     ELSE Verify(f, arg)} :
            /\ \A n \in DOMAIN eff.value : Len(eff.value[n]) <= MaxText
            /\ selected' = eff.selected
            /\ value' = eff.value
            /\ calls' = Recent(Append(calls,
                   ScopedCall(op, alias, arg, eff,
                              IF sec.status = "ok" THEN sec.value[1] ELSE 0)))
            /\ formDriver' = IF sec.status = "ok" THEN DriverP ELSE formDriver
            /\ UNCHANGED <<present, fdecl, held, parked>>

\* the page with the section: any document over the section's nodes
InitSectionForm ==
    /\ present \in {att \in SUBSET DocNodes : WellFormed(att)}
    /\ fdecl \in [clear : BOOLEAN]
    /\ selected = {}
    /\ value = [n \in DocNodes |-> <<>>]
    /\ calls = <<>>
    /\ ResolveIdle
    /\ DateIdle
    /\ PageIdle
    /\ NavIdle
    /\ GroupIdle
    /\ BindIdle

NextSectionForm ==
    /\ \/ \E arg \in Texts : SectionFormCall("complete", "x", arg)
       \/ SectionFormCall("complete", "t", NoneArg)
       \/ \E alias \in {"x", "t"} : \E arg \in Texts \cup { <<>> } :
              SectionFormCall("verify", alias, arg)
    /\ UNCHANGED <<decl, pc, target, idx, scope, polls, result, prev>>
    /\ UNCHANGED <<dateVars, pageVars, navVars, groupVars>>

SpecSectionForm == InitSectionForm /\ [][NextSectionForm]_vars

----------------------------------------------------------------------------
(* One declared Form read off two page objects *)

\* the driver of page object Q, another browser showing the same page
DriverQ == 2

\* two page objects of the page class that declares the Form
PageObjects == {"P", "Q"}

\* parent.driver
DriverOf(pg) == IF pg = "P" THEN DriverP ELSE DriverQ

\* The browser whose controls selected and value describe: the one of the
\* driver the Form holds (before the first access, P's).  The controls of
\* the other browser are parked.
Focus == IF formDriver = 0 THEN DriverP ELSE formDriver

\* Form.__get__(parent, owner): self.driver = parent.driver; return self.
\* The step keeps the form it was handed.
FormGet(pg) ==
    /\ formDriver' = DriverOf(pg)
    /\ held' = held \cup {pg}
    /\ IF DriverOf(pg) = Focus
       THEN UNCHANGED <<selected, value, parked>>
       ELSE /\ selected' = parked.selected
            /\ value' = parked.value
            /\ parked' = [selected |-> selected, value |-> value]
    /\ UNCHANGED <<present, fdecl, calls>>

\* the record of a finished call on a held form: the page object the form
\* was read off, and the driver the input was run with
BoundCall(op, alias, arg, eff, pg) ==
    [op |-> op, alias |-> alias, arg |-> arg, holder |-> pg,
     driver |-> formDriver, outcome |-> eff.outcome, actions |-> eff.actions]

\* form.complete / form.verify on the form a step read off page object pg:
\* input.complete(self.driver, value), input.verify(self.driver, alias, value)
HeldCall(pg, op, alias, arg) ==
    /\ pg \in held
    /\ \E eff \in {IF op = "complete" THEN CompleteByAlias(alias, arg)
                     ELSE VerifyByAlias(alias, arg)} :
            /\ selected' = eff.selected
            /\ value' = eff.value
            /\ calls' = Recent(Append(calls, BoundCall(op, alias, arg, eff, pg)))
    /\ UNCHANGED <<present, fdecl, formDriver, held, parked>>

\* the aliases the steps of the two pages use
BoundAliases == {"agree", "submit"}

\* both browsers show the form, the checkbox ticked or not in each
InitBind ==
    /\ present = ControlNodes
    /\ fdecl = [clear |-> TRUE]
    /\ selected \in SUBSET {9}
    /\ value = [n \in ControlNodes |-> <<>>]
    /\ calls = <<>>
    /\ formDriver = 0
    /\ held = {}
    /\ parked \in [selected : SUBSET {9}, value : {value}]
    /\ ResolveIdle
    /\ DateIdle
    /\ PageIdle
    /\ NavIdle
    /\ GroupIdle

NextBind ==
    /\ \/ \E pg \in PageObjects : FormGet(pg)
       \/ \E pg \in PageObjects : \E alias \in BoundAliases :
              \E arg \in CompleteArgs(alias) :
                  HeldCall(pg, "complete", alias, arg)
       \/ \E pg \in PageObjects : \E alias \in BoundAliases :
              \E arg \in VerifyArgs(alias) :
                  HeldCall(pg, "verify", alias, arg)
    /\ UNCHANGED <<decl, pc, target, idx, scope, polls, result, prev>>
    /\ UNCHANGED <<dateVars, pageVars, navVars, groupVars>>

SpecBind == InitBind /\ [][NextBind]_vars

----------------------------------------------------------------------------
(* Strings, as sequences of one-character strings *)

\* the first place of character ch in s, 0 when there is none
IndexOf(s, ch) ==
    IF \E i \in DOMAIN s : s[i] = ch
    THEN CHOOSE i \in DOMAIN s : s[i] = ch /\ \A j \in 1..(i - 1) : s[j] # ch
    ELSE 0

RECURSIVE Split(_, _, _)
\* s.split(sep, maxsplit)
Split(s, sep, maxsplit) ==
    IF maxsplit = 0 \/ IndexOf(s, sep) = 0 THEN <<s>>
    ELSE <<SubSeq(s, 1, IndexOf(s, sep) - 1)>>
           \o Split(SubSeq(s, IndexOf(s, sep) + 1, Len(s)), sep, maxsplit - 1)

RECURSIVE RStrip(_, _)
\* s.rstrip(ch)
RStrip(s, ch) ==
    IF s # <<>> /\ s[Len(s)] = ch THEN RStrip(SubSeq(s, 1, Len(s) - 1), ch) ELSE s

RECURSIVE LStrip_Both(_, _)
\* s.strip(ch): the character taken off both ends
LStrip_Both(s, ch) ==
    IF s # <<>> /\ Head(s) = ch THEN LStrip_Both(Tail(s), ch) ELSE RStrip(s, ch)

RECURSIVE LStrip(_, _)
\* s.lstrip(ch)
LStrip(s, ch) ==
    IF s # <<>> /\ Head(s) = ch THEN LStrip(Tail(s), ch) ELSE s

\* s.endswith(suffix)
EndsWith(s, suffix) ==
    /\ Len(suffix) <= Len(s)
    /\ SubSeq(s, Len(s) - Len(suffix) + 1, Len(s)) = suffix

\* s.startswith(prefix)
StartsWith(s, prefix) ==
    /\ Len(prefix) <= Len(s)
    /\ SubSeq(s, 1, Len(prefix)) = prefix

----------------------------------------------------------------------------
(* DateInput *)

\* intToMonth
IntToMonth ==
    [k \in { <<"1">>, <<"2">>, <<"3">>, <<"4">>, <<"5">>, <<"6">>, <<"7">>,
             <<"8">>, <<"9">>, <<"1", "0">>, <<"1", "1">>, <<"1", "2">> } |->
       CASE k = <<"1">> -> <<"J", "a", "n">>
         [] k = <<"2">> -> <<"F", "e", "b">>
         [] k = <<"3">> -> <<"M", "a", "r">>
         [] k = <<"4">> -> <<"A", "p", "r">>
         [] k = <<"5">> -> <<"M", "a", "y">>
         [] k = <<"6">> -> <<"J", "u", "n">>
         [] k = <<"7">> -> <<"J", "u", "l">>
         [] k = <<"8">> -> <<"A", "u", "g">>
         [] k = <<"9">> -> <<"S", "e", "p">>
         [] k = <<"1", "0">> -> <<"O", "c", "t">>
         [] k = <<"1", "1">> -> <<"N", "o", "v">>
         [] k = <<"1", "2">> -> <<"D", "e", "c">>]

\* SelectInput(name + suffix): a select looked up by name
SubSelect(name, part) ==
    [part |-> part, by |-> ByName,
     locator |-> name \o <<"-">> \o
                   (CASE part = "day"   -> <<"d", "a", "y">>
                      [] part = "month" -> <<"m", "o", "n", "t", "h">>
                      [] part = "year"  -> <<"y", "e", "a", "r">>)]

RECURSIVE SelectFills(_, _)
\* the selector.complete(driver, text) calls in turn: each looks its select
\* up and selects the text; a select the document lacks ends the run with
\* the lookup's timeout failure
SelectFills(todo, done) ==
    IF todo = <<>> THEN [outcome |-> "ok", fills |-> done]
    ELSE IF Head(todo).select.part \notin dateDoc
    THEN [outcome |-> "ElementNotFound", fills |-> done]
    ELSE SelectFills(Tail(todo),
                     Append(done, [locator |-> Head(todo).select.locator,
                                   by |-> Head(todo).select.by,
                                   text |-> Head(todo).text]))

\* DateInput.complete
DateComplete(info) ==
    LET nd == Split(info, ":", 1)
        dmy == Split(nd[2], "/", 2)
        day == LStrip(dmy[1], "0")
        key == LStrip(dmy[2], "0")
    IN  IF Len(nd) # 2 THEN [outcome |-> "ValueError", fills |-> <<>>]
        ELSE IF Len(dmy) # 3 THEN [outcome |-> "ValueError", fills |-> <<>>]
        ELSE IF key \notin DOMAIN IntToMonth
        THEN [outcome |-> "KeyError", fills |-> <<>>]
        ELSE SelectFills(
               << [select |-> SubSelect(nd[1], "day"), text |-> day],
                  [select |-> SubSelect(nd[1], "month"), text |-> IntToMonth[key]],
                  [select |-> SubSelect(nd[1], "year"), text |-> dmy[3]] >>,
               <<>>)

\* a step fills the date input
DateFill ==
    /\ dateOut.outcome = "none"
    /\ dateOut' = DateComplete(dateIn.info)
    /\ UNCHANGED <<dateIn, dateDoc>>

\* the decimal digit d
Digit(d) ==
    CASE d = 0 -> "0" [] d = 1 -> "1" [] d = 2 -> "2" [] d = 3 -> "3"
      [] d = 4 -> "4" [] d = 5 -> "5" [] d = 6 -> "6" [] d = 7 -> "7"
      [] d = 8 -> "8" [] d = 9 -> "9"

\* a number below 100 written with two digits, as the step writes dd and mm
TwoDigits(n) == <<Digit(n \div 10), Digit(n % 10)>>

\* names of date inputs
DateNames == { <<"d", "o", "b">>, <<"d", "0">>, <<"a", "/", "b">> }

Years == { <<"1", "9", "9", "0">>, <<"2", "0", "0", "5">> }

\* the values 'name:dd/mm/yyyy' a step passes; months 00 and 13 are the
\* ones intToMonth has no entry for
DateInputs ==
    { [info  |-> n \o <<":">> \o TwoDigits(d) \o <<"/">> \o TwoDigits(m)
                   \o <<"/">> \o y,
       name  |-> n, day |-> d, month |-> m, year |-> y] :
        n \in DateNames, d \in 1..31, m \in 0..13, y \in Years }

InitDate ==
    /\ dateIn \in DateInputs
    /\ dateDoc \in { {"day", "month", "year"}, {"month", "year"},
                     {"day", "year"}, {"day", "month"} }
    /\ dateOut = [outcome |-> "none", fills |-> <<>>]
    /\ present = {}
    /\ ResolveIdle
    /\ FormIdle
    /\ PageIdle
    /\ NavIdle
    /\ GroupIdle
    /\ BindIdle

NextDate ==
    /\ DateFill
    /\ UNCHANGED <<resolveVars, formVars, pageVars, navVars, groupVars, bindVars>>

SpecDate == InitDate /\ [][NextDate]_vars

----------------------------------------------------------------------------
(* BasePage.__init__ *)

\* longest path drawn over the path alphabet
MaxPathLen == 4

\* the string "(\#.*)?" of the constructor's second endswith
HashSuffix == <<"(", "\\", "#", ".", "*", ")", "?">>

\* re.match('^.*#[^/]', path) taken as: the path holds a "#" at all
FragmentMatch_AnyHash(path) == \E i \in DOMAIN path : path[i] = "#"

\* re.match('^.*#[^/]', path): some "#" has a character after it that is
\* not "/"
FragmentMatch(path) ==
    \E i \in DOMAIN path :
        path[i] = "#" /\ i < Len(path) /\ path[i + 1] # "/"

\* the path after the constructor's if
NormalizePath(path) ==
    IF ~EndsWith(path, <<"/">>) /\ ~EndsWith(path, HashSuffix)
          /\ ~FragmentMatch(path)
    THEN path \o <<"/">>
    ELSE path

RECURSIVE Join(_, _)
\* sep.join(parts)
Join(parts, sep) ==
    IF parts = <<>> THEN <<>>
    ELSE IF Len(parts) = 1 THEN parts[1]
    ELSE parts[1] \o <<sep>> \o Join(Tail(parts), sep)

\* segments[1:-1] = filter(None, segments[1:-1])
DropEmptyInside(segs) ==
    IF Len(segs) <= 2 THEN segs
    ELSE <<segs[1]>>
           \o SelectSeq(SubSeq(segs, 2, Len(segs) - 1), LAMBDA x : x # <<>>)
           \o <<segs[Len(segs)]>>

\* scheme://netloc/path#fragment put together (urlunparse)
Unparse(scheme, netloc, path, hasFragment, fragment) ==
    scheme \o <<":", "/", "/">> \o netloc
        \o (IF path # <<>> /\ Head(path) # "/" THEN <<"/">> ELSE <<>>)
        \o path
        \o (IF hasFragment /\ fragment # <<>> THEN <<"#">> \o fragment ELSE <<>>)

\* urljoin(base, url) for a base scheme://netloc[/path] and a reference that
\* has no scheme, query, parameters or dot segments before its fragment
UrlJoin(base, ref) ==
    LET h       == IndexOf(ref, "#")
        hasFrag == h > 0
        frag    == IF hasFrag THEN SubSeq(ref, h + 1, Len(ref)) ELSE <<>>
        r       == IF hasFrag THEN SubSeq(ref, 1, h - 1) ELSE ref
        isNet   == StartsWith(r, <<"/", "/">>)
        afterNet == SubSeq(r, 3, Len(r))
        cut     == IndexOf(afterNet, "/")
        netloc  == IF ~isNet THEN <<>>
                   ELSE IF cut = 0 THEN afterNet
                   ELSE SubSeq(afterNet, 1, cut - 1)
        path    == IF ~isNet THEN r
                   ELSE IF cut = 0 THEN <<>>
                   ELSE SubSeq(afterNet, cut, Len(afterNet))
        bparts  == Split(base.path, "/", -1)
        bdir    == IF bparts[Len(bparts)] # <<>>
                   THEN SubSeq(bparts, 1, Len(bparts) - 1) ELSE bparts
        segs    == IF Head(path) = "/" THEN Split(path, "/", -1)
                   ELSE DropEmptyInside(bdir \o Split(path, "/", -1))
        joined  == Join(segs, "/")
    IN  IF ref = <<>> THEN Unparse(base.scheme, base.netloc, base.path, FALSE, <<>>)
        ELSE IF netloc # <<>>
        THEN Unparse(base.scheme, netloc, path, hasFrag, frag)
        ELSE IF path = <<>>
        THEN Unparse(base.scheme, base.netloc, base.path, hasFrag, frag)
        ELSE Unparse(base.scheme, base.netloc,
                     IF joined = <<>> THEN <<"/">> ELSE joined, hasFrag, frag)

\* BasePage.__init__(driver, base, path)
BasePageInit(base, path) ==
    [base |-> base,
     path |-> NormalizePath(path),
     url  |-> UrlJoin(base, NormalizePath(path))]

\* page = BasePage(driver, base, path)
Construct ==
    /\ page.url = <<>>
    /\ page' = BasePageInit(ctor.base, ctor.path)
    /\ UNCHANGED ctor

RECURSIVE SeqsUpTo(_, _)
\* the strings over an alphabet of length at most n
SeqsUpTo(alphabet, n) ==
    IF n = 0 THEN { <<>> }
    ELSE LET shorter == SeqsUpTo(alphabet, n - 1)
         IN  shorter \cup {Append(q, c) : q \in shorter, c \in alphabet}

\* the paths a page class passes: short ones over "/", "#" and a letter,
\* "/foo", "/foo#bar", and paths that end with the optional-hash suffix
Paths ==
    SeqsUpTo({"/", "#", "f"}, MaxPathLen)
      \cup { <<"/", "f", "o", "o">>,
             <<"/", "f", "o", "o", "#", "b", "a", "r">>,
             <<"/", "f">> \o HashSuffix,
             <<"/", "f", "/">> \o HashSuffix }

\* the base addresses: https://example.com written short, without and with
\* a path of its own
Bases ==
    { [scheme |-> <<"h">>, netloc |-> <<"e", ".", "c">>, path |-> <<>>],
      [scheme |-> <<"h">>, netloc |-> <<"e", ".", "c">>,
       path |-> <<"/", "a", "p", "/">>] }

InitUrl ==
    /\ ctor \in [base : Bases, path : Paths]
    /\ page = [base |-> <<>>, path |-> <<>>, url |-> <<>>]
    /\ present = {}
    /\ ResolveIdle
    /\ FormIdle
    /\ DateIdle
    /\ NavIdle
    /\ GroupIdle
    /\ BindIdle

NextUrl ==
    /\ Construct
    /\ UNCHANGED <<resolveVars, formVars, dateVars, navVars, groupVars, bindVars>>

SpecUrl == InitUrl /\ [][NextUrl]_vars

----------------------------------------------------------------------------
(* BasePage.assert_on_page *)

\* polls that fit in BasePage.TIMEOUT
MaxPagePolls == 3

\* the pattern compared as plain text
ReMatch_Literal(pat, str) == pat = str

RECURSIVE ReMatch(_, _)
\* re.match('^' + pat + '$', str) for a pattern made of plain characters,
\* "." and the group "(\#.*)?"
ReMatch(pat, str) ==
    IF pat = <<>> THEN str = <<>>
    ELSE IF StartsWith(pat, HashSuffix)
    THEN LET rest == SubSeq(pat, Len(HashSuffix) + 1, Len(pat))
         IN  \/ ReMatch(rest, str)
             \/ /\ str # <<>>
                /\ Head(str) = "#"
                /\ \E k \in 2..(Len(str) + 1) :
                       ReMatch(rest, SubSeq(str, k, Len(str)))
    ELSE IF Head(pat) = "."
    THEN str # <<>> /\ ReMatch(Tail(pat), Tail(str))
    ELSE str # <<>> /\ Head(str) = Head(pat) /\ ReMatch(Tail(pat), Tail(str))

\* the lambda of assert_on_page
OnPage(loc) == ReMatch(page.url, loc)

\* self.wait_until(..., timeout=self.TIMEOUT) is entered
AssertOnPage ==
    /\ apc \in {"idle", "done"}
    /\ apc' = "poll"
    /\ apolls' = 0
    /\ seen' = {}
    /\ aresult' = "none"
    /\ UNCHANGED <<location, page, ctor>>

\* one poll of WebDriverWait.until: the lambda on driver.current_url, then
\* the sleep and the clock test
AssertPoll ==
    /\ apc = "poll"
    /\ seen' = seen \cup {location}
    /\ IF OnPage(location)
       THEN /\ apc' = "done"
            /\ aresult' = "ok"
            /\ UNCHANGED apolls
       ELSE IF apolls + 1 >= MaxPagePolls
       THEN /\ apc' = "done"
            /\ aresult' = "TimeoutException"
            /\ apolls' = IF apolls < MaxPagePolls THEN apolls + 1 ELSE apolls
       ELSE /\ apolls' = IF apolls < MaxPagePolls THEN apolls + 1 ELSE apolls
            /\ UNCHANGED <<apc, aresult>>
    /\ UNCHANGED <<location, page, ctor>>

\* the browser moves to another address (go_to_link, a redirect, a click)
Navigate(loc) ==
    /\ location # loc
    /\ location' = loc
    /\ UNCHANGED <<apc, apolls, seen, aresult, page, ctor>>

\* the paths of the pages asserted on: "/a" and "/a" with the optional-hash
\* suffix
NavPaths == { <<"/", "a">>, <<"/", "a">> \o HashSuffix }

\* addresses the browser can be at
Locations ==
    { <<"h", ":", "/", "/", "e", ".", "c", "/", "a", "/">>,
      <<"h", ":", "/", "/", "e", "x", "c", "/", "a", "/">>,
      <<"h", ":", "/", "/", "e", ".", "c", "/", "a">>,
      <<"h", ":", "/", "/", "e", ".", "c", "/", "a", "#", "x">>,
      <<"h", ":", "/", "/", "e", ".", "c", "/", "b", "/">> }

InitNav ==
    /\ ctor \in [base : {b \in Bases : b.path = <<>>}, path : NavPaths]
    /\ page = BasePageInit(ctor.base, ctor.path)
    /\ location \in Locations
    /\ apc = "idle"
    /\ apolls = 0
    /\ seen = {}
    /\ aresult = "none"
    /\ present = {}
    /\ ResolveIdle
    /\ FormIdle
    /\ DateIdle
    /\ GroupIdle
    /\ BindIdle

NextNav ==
    /\ \/ AssertOnPage
       \/ AssertPoll
       \/ \E loc \in Locations : Navigate(loc)
    /\ UNCHANGED <<resolveVars, formVars, dateVars, groupVars, bindVars>>

SpecNav == InitNav /\ [][NextNav]_vars

----------------------------------------------------------------------------
(* The text steps of steps/navigation.py *)

\* the texts a scenario names: of a plain node, of a link, of no node
StepTexts == {"x", "t", "zz"}

\* where a click on a node takes the browser: node 6 is a link, the other
\* nodes are no links
Href == [n \in DocNodes |->
           IF n = 6
           THEN <<"h", ":", "/", "/", "e", ".", "c", "/", "b", "/">>
           ELSE <<>>]

\* ElementSelector.find(self.driver, By.CONTENT, text) on a document that
\* stays as it is during the call
FindText(text) ==
    FindStatic(0, [type |-> "element", by |-> ByContent,
                   locator |-> Locator(text, FALSE), multiple |-> FALSE])

\* what a page method did: how it ended and the driver actions it issued
PageEffect(out, acts) == [outcome |-> out, actions |-> acts]

\* BasePage.click_on_text
ClickOnText(text) ==
    LET r == FindText(text)
    IN  IF r.status # "ok" THEN PageEffect(r.status, <<Act("find", 0, <<text>>)>>)
        ELSE PageEffect("ok", <<Act("find", 0, <<text>>),
                                Act("click", r.value[1], <<>>)>>)

\* BasePage.assert_text
AssertText(text) ==
    LET r == FindText(text)
    IN  PageEffect(r.status, <<Act("find", 0, <<text>>)>>)

\* the browser after the driver actions of a page method: a click on a link
\* loads the linked address and with it another document
Browse(op, text, eff) ==
    /\ calls' = Recent(Append(calls,
           [op |-> op, arg |-> text, outcome |-> eff.outcome,
            actions |-> eff.actions]))
    /\ IF \E i \in DOMAIN eff.actions :
             eff.actions[i].act = "click" /\ Href[eff.actions[i].node] # <<>>
       THEN /\ \E i \in DOMAIN eff.actions :
                   /\ eff.actions[i].act = "click"
                   /\ location' = Href[eff.actions[i].node]
            /\ present' \in {att \in SUBSET DocNodes : WellFormed(att)}
       ELSE UNCHANGED <<location, present>>
    /\ UNCHANGED <<fdecl, selected, value, apc, apolls, seen, aresult>>

\* @When('I click on "{text}" on the {page} page')
StepClickOnText(text) ==
    \E eff \in {ClickOnText(text)} : Browse("click", text, eff)

\* @Then('I see "{text}" on the {page} page'):
\* context.get_page(page).click_on_text(text)
StepSeeText(text) ==
    \E eff \in {ClickOnText(text)} : Browse("see", text, eff)

\* page.assert_text(text), called on the page object
PageAssertText(text) ==
    \E eff \in {AssertText(text)} : Browse("assert_text", text, eff)

InitSteps ==
    /\ present \in {att \in SUBSET DocNodes : WellFormed(att)}
    /\ location = <<"h", ":", "/", "/", "e", ".", "c", "/", "a", "/">>
    /\ apc = "idle"
    /\ apolls = 0
    /\ seen = {}
    /\ aresult = "none"
    /\ FormIdle
    /\ ResolveIdle
    /\ DateIdle
    /\ PageIdle
    /\ GroupIdle
    /\ BindIdle

NextSteps ==
    /\ \/ \E text \in StepTexts : StepClickOnText(text)
       \/ \E text \in StepTexts : StepSeeText(text)
       \/ \E text \in StepTexts : PageAssertText(text)
    /\ UNCHANGED <<decl, pc, target, idx, scope, polls, result, prev>>
    /\ UNCHANGED <<dateVars, pageVars, groupVars, bindVars>>

SpecSteps == InitSteps /\ [][NextSteps]_vars

----------------------------------------------------------------------------
(* Resolution: scoping, timeout, freshness *)

Range(f) == {f[i] : i \in DOMAIN f}

\* C1: an element or nested section reached through a section resolves only
\* to nodes inside that section's resolved root subtree, for every strategy.
C1_ScopingContainment ==
    (pc = "done" /\ result.status = "ok" /\ Len(target) > 1)
        => \A v \in Range(result.value) : IsUnder(v, result.root)

\* C2: a started access always ends; and a find() whose last poll of the
\* timeout, like those before it, finds nothing in a live scope ends there
\* with ElementNotFound, which carries the locator and the strategy polled
\* with and no element.
C2_TimeoutTerminates ==
    /\ (pc \in {"poll", "lookup"}) ~> (pc = "done")
    /\ [][ (pc = "poll" /\ <<pc, polls>>' # <<pc, polls>>
                /\ ~IsStale(scope, present)
                /\ polls + 1 >= MaxPolls
                /\ \A n \in SearchBase(scope, EffBy(CurDesc), EffLocator(CurDesc), present) :
                       Tag[n] # CurDesc.locator.val)
            => (/\ pc' = "done"
                /\ result'.status = "ElementNotFound"
                /\ result'.value = <<>>
                /\ result'.by = EffBy(CurDesc)
                /\ result'.locator = EffLocator(CurDesc)) ]_vars

\* an access has ended in the timeout failure
C2_Witness ==
    /\ pc = "done"
    /\ result.status = "ElementNotFound"
    /\ result.by \in Strategies
    /\ result.locator.val \in {"s", "t", "x"}

\* C3: every access resolves afresh: what an access returns are nodes that
\* match the locator in the document as it is at the returning lookup, found
\* from a root attached at that moment, whatever the access before returned.
C3_NoCaching ==
    [][ (pc = "lookup" /\ pc' = "done" /\ result'.status = "ok")
        => (/\ \A v \in Range(result'.value) :
                    v \in present /\ Tag[v] = CurDesc.locator.val
            /\ result'.root \in present \cup {0}
            /\ (~CurDesc.multiple => Len(result'.value) = 1)) ]_vars

\* the same attribute chain was read twice, the document changed in between,
\* and the second read returned another node than the first, which is gone
C3_Witness ==
    /\ pc = "done"
    /\ result.status = "ok"
    /\ prev.status = "ok"
    /\ prev.value # <<>>
    /\ result.value # <<>>
    /\ prev.value[1] \notin present
    /\ result.value[1] # prev.value[1]

----------------------------------------------------------------------------
(* Form inputs: clicks, verification, order of the driver actions *)

\* the places of the actions named a in a sequence of driver actions
Places(acts, a) == {i \in DOMAIN acts : acts[i].act = a}

Clicks(c) == Cardinality(Places(c.actions, "click"))

IsFill(c, alias) == c.op = "complete" /\ c.alias = alias /\ c.outcome = "ok"

\* C4: a Checkbox fill with "checked" or "unchecked" clicks iff the box's
\* selected-state differs from the one asked for and leaves the box in the
\* state asked for; of two fill("checked") in a row the second never clicks
\* and the box is checked after both.
C4_CheckboxIdempotent ==
    /\ \A i \in DOMAIN calls :
         (IsFill(calls[i], "agree")
            /\ calls[i].arg \in { <<"checked">>, <<"unchecked">> })
         => /\ Clicks(calls[i])
                 = (IF calls[i].before # (calls[i].arg = <<"checked">>)
                    THEN 1 ELSE 0)
            /\ calls[i].after = (calls[i].arg = <<"checked">>)
    /\ (/\ Len(calls) = 2
        /\ IsFill(calls[1], "agree") /\ calls[1].arg = <<"checked">>
        /\ IsFill(calls[2], "agree") /\ calls[2].arg = <<"checked">>)
       => /\ Clicks(calls[2]) = 0
          /\ calls[1].after /\ calls[2].after
          /\ ControlOf("agree") \in selected

\* fill("checked") twice in a row on a box that was not checked
C4_Witness ==
    /\ Len(calls) = 2
    /\ IsFill(calls[1], "agree") /\ calls[1].arg = <<"checked">>
    /\ IsFill(calls[2], "agree") /\ calls[2].arg = <<"checked">>
    /\ ~calls[1].before
    /\ Clicks(calls[1]) = 1
    /\ Clicks(calls[2]) = 0

\* C5: a RadioButton fill issues no click and leaves the button selected
\* when it is selected already, and issues exactly one click when it is not.
C5_RadioNoClickWhenSelected ==
    \A i \in DOMAIN calls :
        IsFill(calls[i], "opt")
        => /\ Clicks(calls[i]) = (IF calls[i].before THEN 0 ELSE 1)
           /\ calls[i].before => calls[i].after

\* a fill on the radio button while it is selected, after the fill that
\* selected it
C5_Witness ==
    /\ Len(calls) = 2
    /\ IsFill(calls[1], "opt") /\ ~calls[1].before /\ Clicks(calls[1]) = 1
    /\ IsFill(calls[2], "opt") /\ calls[2].before /\ Clicks(calls[2]) = 0
    /\ ControlOf("opt") \in selected

\* C6: verify returns normally only when the observed state agrees with the
\* expected value; on a Checkbox it returns normally iff the expected value
\* is "checked" and the box is selected, or "unchecked" and it is not.
C6_MismatchSurfaced ==
    calls # <<>> =>
      LET c == calls[Len(calls)]
      IN  (c.op = "verify" /\ c.outcome \in {"ok", "Exception"})
          => IF Field(c.alias).variant = "Checkbox"
             THEN (c.outcome = "ok")
                    <=> \/ (c.arg = <<"checked">> /\ c.before)
                        \/ (c.arg = <<"unchecked">> /\ ~c.before)
             ELSE (c.outcome = "ok") <=> (value[ControlOf(c.alias)] = c.arg)

\* C7: Form.complete("email", v) followed by the submit button's complete
\* issues exactly one send_keys, with v, on the text input and exactly one
\* click, on the button, the send_keys first; a clear comes before the
\* send_keys only.
C7_TypeThenClick ==
    (/\ Len(calls) = 2
     /\ IsFill(calls[1], "email")
     /\ IsFill(calls[2], "submit"))
    => LET log == calls[1].actions \o calls[2].actions
           types == Places(log, "send_keys")
           clicks == Places(log, "click")
       IN  /\ Cardinality(types) = 1
           /\ Cardinality(clicks) = 1
           /\ \A t \in types :
                /\ log[t].arg = calls[1].arg
                /\ Tag[log[t].node] = "email"
                /\ \A k \in clicks : t < k /\ Tag[log[k].node] = "submit"
                /\ \A j \in Places(log, "clear") : j < t

\* the two calls were made on a form whose text input clears first
C7_Witness ==
    /\ Len(calls) = 2
    /\ IsFill(calls[1], "email")
    /\ IsFill(calls[2], "submit")
    /\ Places(calls[1].actions, "clear") # {}
    /\ Places(calls[1].actions, "send_keys") # {}
    /\ Places(calls[2].actions, "click") # {}

----------------------------------------------------------------------------
(* Date decomposition *)

\* the three-letter name of month m
MonthName(m) ==
    CASE m = 1 -> <<"J", "a", "n">>  [] m = 2 -> <<"F", "e", "b">>
      [] m = 3 -> <<"M", "a", "r">>  [] m = 4 -> <<"A", "p", "r">>
      [] m = 5 -> <<"M", "a", "y">>  [] m = 6 -> <<"J", "u", "n">>
      [] m = 7 -> <<"J", "u", "l">>  [] m = 8 -> <<"A", "u", "g">>
      [] m = 9 -> <<"S", "e", "p">>  [] m = 10 -> <<"O", "c", "t">>
      [] m = 11 -> <<"N", "o", "v">> [] m = 12 -> <<"D", "e", "c">>

\* a number from 1 to 99 written without leading zeros
Decimal(n) == IF n < 10 THEN <<Digit(n)>> ELSE TwoDigits(n)

\* the three select fills the claim asks for, for name, day, month and year
ExpectedFills(in) ==
    << [locator |-> in.name \o <<"-", "d", "a", "y">>, by |-> ByName,
        text |-> Decimal(in.day)],
       [locator |-> in.name \o <<"-", "m", "o", "n", "t", "h">>, by |-> ByName,
        text |-> MonthName(in.month)],
       [locator |-> in.name \o <<"-", "y", "e", "a", "r">>, by |-> ByName,
        text |-> in.year] >>

\* C8: for "name:dd/mm/yyyy" with day 01..31 and month 01..12, Date fill
\* does the select fills name-day, name-month, name-year in that order, with
\* the day without leading zeros, the month as its three-letter name and the
\* year as given: all three where the page holds the three selects, and
\* those before the first missing select otherwise.
C8_DateDecomposition ==
    (dateOut.outcome # "none" /\ dateIn.month \in 1..12)
    => LET want == ExpectedFills(dateIn)
           missing == {i \in 1..3 : <<"day", "month", "year">>[i] \notin dateDoc}
           n == IF missing = {} THEN 3
                ELSE (CHOOSE i \in missing : \A j \in missing : i <= j) - 1
       IN  /\ dateOut.fills = SubSeq(want, 1, n)
           /\ (dateOut.outcome = "ok") <=> (missing = {})
           /\ missing = {} => Len(dateOut.fills) = 3

\* "dob:05/03/1990" was filled on a page with the three selects:
\* "5" on dob-day, "Mar" on dob-month, "1990" on dob-year
C8_Witness ==
    /\ dateIn.info = <<"d", "o", "b", ":", "0", "5", "/", "0", "3", "/",
                       "1", "9", "9", "0">>
    /\ dateOut.outcome = "ok"
    /\ dateOut.fills =
         << [locator |-> <<"d", "o", "b", "-", "d", "a", "y">>, by |-> ByName,
             text |-> <<"5">>],
            [locator |-> <<"d", "o", "b", "-", "m", "o", "n", "t", "h">>,
             by |-> ByName, text |-> <<"M", "a", "r">>],
            [locator |-> <<"d", "o", "b", "-", "y", "e", "a", "r">>,
             by |-> ByName, text |-> <<"1", "9", "9", "0">>] >>

----------------------------------------------------------------------------
(* Page construction and assert_on_page *)

Constructed == page.url # <<>>

\* the base address as text
BaseText(b) == b.scheme \o <<":", "/", "/">> \o b.netloc \o b.path

\* the full URL is the base followed by the path, for a base without a path
\* of its own and a path that starts with one "/"
UrlIsBasePlusPath ==
    (ctor.base.path = <<>> /\ StartsWith(ctor.path, <<"/">>)
        /\ ~StartsWith(ctor.path, <<"/", "/">>))
    => page.url = BaseText(ctor.base) \o page.path

\* C9 as stated: no slash is appended when the path ends with "/", ends
\* with the optional-hash suffix or holds a "#", whatever follows the "#";
\* otherwise exactly one "/" is appended; the full URL is the base joined
\* with the result.
C9_AsStated ==
    Constructed =>
      /\ page.path =
           IF \/ EndsWith(ctor.path, <<"/">>)
              \/ EndsWith(ctor.path, HashSuffix)
              \/ \E i \in DOMAIN ctor.path : ctor.path[i] = "#"
           THEN ctor.path
           ELSE ctor.path \o <<"/">>
      /\ UrlIsBasePlusPath

\* C9 amended: no slash is appended when the path ends with "/", ends with
\* the optional-hash suffix or holds a "#" that is followed by a character
\* other than "/"; otherwise (also for a path whose every "#" is its last
\* character or is followed by "/") exactly one "/" is appended; the full
\* URL is the base joined with the result.
C9_UrlNormalization ==
    Constructed =>
      /\ page.path =
           IF \/ EndsWith(ctor.path, <<"/">>)
              \/ EndsWith(ctor.path, HashSuffix)
              \/ \E i \in 1..(Len(ctor.path) - 1) :
                     ctor.path[i] = "#" /\ ctor.path[i + 1] # "/"
           THEN ctor.path
           ELSE ctor.path \o <<"/">>
      /\ UrlIsBasePlusPath

\* "/foo" was given a slash and "h://e.c" joined in front of it
C9_Witness ==
    /\ ctor.path = <<"/", "f", "o", "o">>
    /\ ctor.base.path = <<>>
    /\ page.url = <<"h", ":", "/", "/", "e", ".", "c", "/", "f", "o", "o", "/">>

\* C10 as stated: assert_on_page returns normally only at a poll where the
\* current location is exactly equal to the page's full URL, and fails
\* when no poll within the timeout sees that.
C10_AsStated ==
    /\ aresult = "ok" => \E loc \in seen : loc = page.url
    /\ aresult = "TimeoutException"
         => apolls = MaxPagePolls /\ \A loc \in seen : loc # page.url

RECURSIVE Fits(_, _)
\* does the text fit the URL read as a pattern from its first character to
\* its last: "." stands for any one character, a closing "(\#.*)?" for
\* nothing or for "#" and anything after it, every other character for itself
Fits(url, text) ==
    IF EndsWith(url, HashSuffix)
    THEN LET stem == SubSeq(url, 1, Len(url) - Len(HashSuffix))
             h == IndexOf(text, "#")
         IN  Fits(stem, IF h = 0 THEN text ELSE SubSeq(text, 1, h - 1))
    ELSE /\ Len(url) = Len(text)
         /\ \A i \in DOMAIN url : url[i] = "." \/ url[i] = text[i]

\* C10 amended: assert_on_page returns normally iff at some poll within the
\* timeout the current location matches the page's full URL read as an
\* anchored regular expression; if no poll within the timeout sees a match
\* it fails with the wait's timeout failure.
C10_AssertOnPage ==
    /\ aresult = "ok" => \E loc \in seen : Fits(page.url, loc)
    /\ aresult = "TimeoutException"
         => apolls = MaxPagePolls /\ \A loc \in seen : ~Fits(page.url, loc)
    /\ apc = "poll" => \A loc \in seen : ~Fits(page.url, loc)

\* the assertion passed at a location that differs from the full URL in one
\* character
C10_Witness ==
    /\ aresult = "ok"
    /\ page.url = <<"h", ":", "/", "/", "e", ".", "c", "/", "a", "/">>
    /\ seen = { <<"h", ":", "/", "/", "e", "x", "c", "/", "a", "/">> }

----------------------------------------------------------------------------
(* The checkable group *)

\* the call a step adds to the record of calls
NewCall == calls'[Len(calls')]

\* a fill of the group ends in this step
GroupStep == calls' # calls /\ NewCall.op = "complete" /\ NewCall.alias = "grp"

\* the label nodes a call clicked
ClickedLabels(c) == {c.actions[i].node : i \in Places(c.actions, "click")}

\* the label the document holds for a member of the group, 0 when it has none
LabelFor(m) ==
    LET ls == {l \in LabelNodes \cap present : ForOf[l] = IdOf[m]}
    IN  IF ls = {} THEN 0 ELSE CHOOSE l \in ls : TRUE

\* the members whose label shows the text t
Matching(t) ==
    {m \in GroupNodes \cap present : LabelFor(m) # 0 /\ labels[LabelFor(m)] = t}

\* the first node of a non-empty set, in document order
First(S) == CHOOSE m \in S : \A n \in S : m <= n

\* the fill clicked nothing but the label of the first member of the set S,
\* clicked it when it ran to its end, and did nothing after the click
ClicksFirstOf(c, S) ==
    /\ Clicks(c) <= 1
    /\ \A l \in ClickedLabels(c) : S # {} /\ l = LabelFor(First(S))
    /\ (c.outcome = "ok" /\ S # {}) =>
          /\ Len(c.actions) >= 2
          /\ c.actions[Len(c.actions) - 1] = ActScroll(First(S))
          /\ c.actions[Len(c.actions)] = Act("click", LabelFor(First(S)), <<>>)
    /\ \A i \in Places(c.actions, "click") : i = Len(c.actions)

\* C11, as stated: a fill of the group clicks the label of the first member
\* whose label text equals the target, whatever the selected-state of the
\* members; it clicks at most one label, never the label of a later member,
\* and none when no label equals the target.
C11_AsStated ==
    [][GroupStep => ClicksFirstOf(NewCall, Matching(NewCall.arg))]_vars

\* C11, amended: a fill of the group clicks the label of the first member
\* whose label text equals the target and whose input is not selected, then
\* stops; members that are selected are passed over; it clicks at most one
\* label and none when no unselected member's label equals the target.
C11_GroupFirstUnselected ==
    [][GroupStep =>
         ClicksFirstOf(NewCall, Matching(NewCall.arg) \ selected)]_vars

\* a fill passed over the selected first member, whose label shows the target,
\* and clicked the label of the second member
C11_Witness ==
    /\ calls # <<>>
    /\ LET c == calls[Len(calls)]
       IN  /\ c.alias = "grp" /\ c.outcome = "ok"
           /\ present = GroupNodes \cup LabelNodes
           /\ labels[15] = c.arg /\ labels[16] = c.arg
           /\ c.before
           /\ ClickedLabels(c) = {16}
           /\ 13 \in selected

----------------------------------------------------------------------------
(* Aliases *)

\* C12: a form call with an alias no declared input carries ends in the
\* key failure with no driver action and the controls as they were; a call
\* with a declared alias reaches the input declared under it: it starts
\* with the lookup of that input's locator and touches no other control.
C12_UnknownAlias ==
    \A i \in DOMAIN calls :
        LET c == calls[i]
        IN  /\ c.alias \notin Fields =>
                 /\ c.outcome = "KeyError"
                 /\ c.actions = <<>>
                 /\ c.before = c.after
            /\ c.alias \in Fields =>
                 /\ c.outcome # "KeyError"
                 /\ c.actions # <<>>
                 /\ c.actions[1] = ActFind(Field(c.alias))
                 /\ \A k \in DOMAIN c.actions :
                       c.actions[k].node = 0 \/ Tag[c.actions[k].node] = c.alias

\* a fill with the unknown alias ended in the key failure, and after it a
\* fill of the declared text input reached its control
C12_Witness ==
    /\ Len(calls) = 2
    /\ calls[1].alias = "phone" /\ calls[1].op = "complete"
    /\ calls[1].outcome = "KeyError"
    /\ calls[2].alias = "email" /\ calls[2].op = "complete"
    /\ calls[2].outcome = "ok"
    /\ value[7] = calls[2].arg

----------------------------------------------------------------------------
(* Resolution while the document changes *)

\* C13: whatever the document does during an access, the access ends either
\* with element(s) that matched the locator in the search scope at the lookup
\* that produced them (one element when multiple is false) or with the
\* timeout failure, and with no other failure.
C13_OutcomeUnderMutation ==
    [][(pc # "done" /\ pc' = "done") =>
          \/ result'.status = "ElementNotFound"
          \/ /\ result'.status = "ok"
             /\ Range(result'.value) \subseteq Range(Finder(scope, CurDesc))
             /\ ~CurDesc.multiple => Len(result'.value) = 1]_vars

----------------------------------------------------------------------------
(* A form inside a section *)

\* C14: a form call made through a section touches only nodes of the
\* section's resolved root subtree: the element its input looks up, fills
\* or verifies lies under the section's root.
C14_FormScopedToSection ==
    \A i \in DOMAIN calls :
        LET c == calls[i]
        IN  c.root # 0 =>
               \A k \in DOMAIN c.actions :
                   c.actions[k].node # 0 =>
                       c.actions[k].node \in Subtree(c.root)

----------------------------------------------------------------------------
(* The driver a form is bound to *)

\* C15: every call on a form that a step read off page object P runs with
\* P's driver, also when the form was read off page object Q in between: the
\* driver a call's actions go to is the driver of the page the form came from.
C15_FormDriverBinding ==
    \A i \in DOMAIN calls : calls[i].driver = DriverOf(calls[i].holder)

----------------------------------------------------------------------------
(* The text steps *)

\* the text is on the page: some attached node shows it
TextResolves(text) == \E n \in present : Tag[n] = text

\* C16: the step 'I see "{text}" on the {page} page' passes iff the text
\* resolves on the page, issues no click, key or navigation action to the
\* driver, and leaves the page as it was.
C16_SeeOnlyAsserts ==
    [][(calls' # calls /\ NewCall.op = "see") =>
          /\ (NewCall.outcome = "ok") <=> TextResolves(NewCall.arg)
          /\ \A i \in DOMAIN NewCall.actions :
                NewCall.actions[i].act \notin {"click", "send_keys", "get"}
          /\ <<present, location, selected, value>>'
                = <<present, location, selected, value>>]_vars

====
